---- MODULE Spec2Model ----
(***************************************************************************)
(* VARTA acoustic drone detector firmware: the detection orchestrator      *)
(* (setup() and loop() of main.cpp), the rolling mel-spectrogram buffer    *)
(* and the AlertManager pattern player.                                    *)
(*                                                                         *)
(* Time is in milliseconds, as returned by millis().  One loop() iteration *)
(* is three steps: LoopTop (sample millis(), handleButton, battery check), *)
(* one branch of the switch, and the trailing alertManager.update().       *)
(* The button debouncer of handleButton is represented by its outcome on   *)
(* the orchestrator (none / long press / double press / single press).     *)
(***************************************************************************)
EXTENDS Integers, Sequences, FiniteSets, TLC

\* ------------------------------------------------------------------------
\* Program constants (config.h, alert_manager.h, main.cpp)
\* ------------------------------------------------------------------------
SAMPLE_RATE == 44100
HOP_SIZE == 512
SPEC_TIME_FRAMES == 32
ALERT_HOLDOFF_MS == 2000
ALERT_DURATION_MS == 500
DETECTION_WINDOW_MS == 4000
MIN_DETECTIONS_FOR_ALERT == 3
\* CONFIDENCE_THRESHOLD 0.75f, confidences are modelled in hundredths
CONFIDENCE_THRESHOLD == 75
\* while (millis() - startTime < 30000) in enterCalibrationMode
CALIBRATION_MS == 30000
\* delay(2000) after "CALIBRATION COMPLETE"
CALIBRATION_DONE_DELAY_MS == 2000
\* delay(1000) in the LOW_BATTERY and ERROR cases
DEGRADED_DELAY_MS == 1000
\* triggerAlert: _pulseOnTime = 100, _pulseOffTime = 50
ALERT_PULSE_ON_MS == 100
ALERT_PULSE_OFF_MS == 50
\* triggerHapticOnly: _pulseOnTime = 150, _pulseOffTime = 100
HAPTIC_PULSE_ON_MS == 150
HAPTIC_PULSE_OFF_MS == 100
\* AlertManager constructor: _pulseOnTime(100), _pulseOffTime(100)
INIT_PULSE_ON_MS == 100
INIT_PULSE_OFF_MS == 100
\* the dB range runInference assumes: val = (val + 80) / 80
DB_RANGE == 80

\* config.h: MIC_SPACING_MM 50.0f, SPEED_OF_SOUND 343.0f
MIC_SPACING_MM == 50
SPEED_OF_SOUND == 343
\* crossCorrelate: maxLag = (int)ceil(_maxDelaySamples) + 5
LAG_MARGIN == 5
\* estimateDirection: if (_lastConfidence < 0.5f), confidences in hundredths
MIN_CORRELATION == 50
\* estimateDirection: _smoothedDirection += 0.3f * diff, in tenths
SMOOTHING_TENTHS == 3
\* computeMelSpectrogram: sum = max(sum, 1e-10f), as a power of ten
MEL_FLOOR_EXP == -10
\* the resolution of an angle: angles are in 1/100000 degree, which holds
\* every value the explored calls produce exactly
ANGLE_UNIT == 100000

\* the hop interval of the gate in loop(): HOP_SIZE * 1000 / SAMPLE_RATE (int)
HopIntervalMs == (HOP_SIZE * 1000) \div SAMPLE_RATE

\* ------------------------------------------------------------------------
\* Bounds of the model
\* ------------------------------------------------------------------------
\* latest clock value the orchestrator runs reach, calibration runs not counted
MaxTime == 6000
\* calibration runs (each blocks loop() for 32 s) in a run
MaxCalibrations == 1
\* processing cycles (feature rows inserted) in a run of Spec
MaxCycles == 4
\* detectionCount values explored by Spec
MaxCount == 4
\* feature rows inserted in a run of SpecBuf (more than SPEC_TIME_FRAMES)
MaxRows == 35
\* hops of the end-to-end scenario (SpecE2E)
NumHops == 40
\* latest clock value of the AlertManager call sequences (SpecAM)
MaxApiTime == 700

\* estimateDirection calls in a run of SpecDir
MaxDirCalls == 3
\* numSamples of the crossCorrelate calls (SpecXc)
XcSamples == 4
\* mel bands of the frames of SpecMel and SpecCal
MelBands == 3
\* processing cycles in a run of SpecCal
MaxCalCycles == 3
\* calibration runs in a run of SpecCal
MaxCalRuns == 2

\* millis() when loop() first runs: setup() has delay(100) + 8 * delay(100)
BootTimes == {1000, 2000}
\* duration of one processing cycle up to the alert decision
\* (readAudioSamples blocks in i2s_read, then the transform and inference)
ProcDurations == {5, 1000, 2000}
\* duration of an iteration that skips processing (display refresh)
IdleDurations == {2000}
\* duration of a cycle in SpecBuf: i2s_read of FFT_SIZE samples at 44.1 kHz
BufDurations == {46}
\* duration of a hop in SpecE2E
E2EDurations == {46}
\* confidence returned by the model, in hundredths
Confidences == {0, 75}
\* the confidence forced in the end-to-end scenario (0.9)
E2EConfidences == {90}
\* outcome of handleButton on the orchestrator
Buttons == {"none", "long", "double", "single"}
\* durations passed to triggerAlert / triggerHapticOnly in SpecAM
ApiDurations == {0, 150, 500}
\* clock steps between AlertManager calls in SpecAM
ApiTicks == {50, 100}

VARIABLES
    pc,                 \* position in the firmware: boot / top / switch / update / api
    now,                \* millis()
    currentTime,        \* loop(): unsigned long currentTime = millis()
    batteryLow,         \* loop(): batteryVoltage < BATTERY_CRITICAL_VOLTAGE
    lastProcessTime,    \* loop(): static unsigned long lastProcessTime
    currentState,
    currentConfidence,
    detectionCount,
    lastDetectionTime,
    lastAlertTime,
    audioMuted,
    interpreterOk,      \* interpreter, input and output are all non-null
    setupError,         \* a setup step assigned STATE_ERROR
    melSpectrogram,     \* rolling buffer, one entry per row
    spectrogramIndex,
    inputData,          \* the model's input tensor, one entry per row
    alertActive,        \* AlertManager::_alertActive
    hapticOnly,         \* AlertManager::_hapticOnly
    alertStartTime,     \* AlertManager::_alertStartTime
    alertDuration,      \* AlertManager::_alertDuration
    pulseState,         \* AlertManager::_pulseState
    lastPulseTime,      \* AlertManager::_lastPulseTime
    pulseOnTime,        \* AlertManager::_pulseOnTime
    pulseOffTime,       \* AlertManager::_pulseOffTime
    buzzer,             \* level of BUZZER_PIN
    vibration,          \* level of VIBRATION_PIN
    lastOp,             \* history: the operation the last step performed
    nInserted,          \* history: rows inserted by processAudio so far
    qualTimes,          \* history: loop times of the latest qualifying cycles
    alertTriggers,      \* history: alert triggers so far
    scanToAlert,        \* history: SCAN -> ALERT transitions so far
    calibrations,       \* history: calibration runs so far
    smoothedDirection,  \* DirectionEstimator::_smoothedDirection
    lastConfidence,     \* DirectionEstimator::_lastConfidence
    dirAzimuth,         \* history: the azimuth the last estimateDirection computed
    dirPrevious,        \* history: _smoothedDirection before the last call
    dirReturned,        \* history: the value the last estimateDirection returned
    dirCalls,           \* history: estimateDirection calls so far
    xcSig1,             \* crossCorrelate: sig1
    xcSig2,             \* crossCorrelate: sig2
    xcLag,              \* crossCorrelate: the lag returned
    xcConfidence,       \* crossCorrelate: *confidence
    xcDone,             \* history: crossCorrelate has returned
    noiseFloor,         \* AudioProcessor::_noiseFloor, one entry per mel band
    melInput,           \* history: the filterbank sums of the last frame
    melOutput,          \* computeMelSpectrogram: melOutput, one entry per mel band
    melDone,            \* history: computeMelSpectrogram has returned
    calRows,            \* melSpectrogram, each row with one value per mel band
    calIndex,           \* spectrogramIndex of that buffer
    calTensor,          \* the input tensor, each row with one value per band
    calFresh,           \* history: per row and band, the row was computed
                        \* under a non-zero noise floor of the band
    calFrames,          \* history: the filterbank sums of the frames of the
                        \* last calibration run
    calPrevious,        \* history: _noiseFloor before the last calibration run
    calCycles,          \* history: processing cycles so far
    calRuns             \* history: calibration runs so far

loopVars == <<pc, now, currentTime, batteryLow, lastProcessTime>>
detVars == <<currentState, currentConfidence, detectionCount, lastDetectionTime,
             lastAlertTime, audioMuted, interpreterOk, setupError>>
bufVars == <<melSpectrogram, spectrogramIndex, inputData>>
amVars == <<alertActive, hapticOnly, alertStartTime, alertDuration, pulseState,
            lastPulseTime, pulseOnTime, pulseOffTime, buzzer, vibration>>
histVars == <<lastOp, nInserted, qualTimes, alertTriggers, scanToAlert,
              calibrations>>
dirVars == <<smoothedDirection, lastConfidence, dirAzimuth, dirPrevious,
             dirReturned, dirCalls>>
xcVars == <<xcSig1, xcSig2, xcLag, xcConfidence, xcDone>>
calVars == <<calRows, calIndex, calTensor, calFresh, calFrames, calPrevious,
             calCycles, calRuns>>
melVars == <<noiseFloor, melInput, melOutput, melDone, calVars>>
dspVars == <<dirVars, xcVars, melVars>>
vars == <<loopVars, detVars, bufVars, amVars, histVars, dspVars>>

Rows == 0 .. (SPEC_TIME_FRAMES - 1)

\* ------------------------------------------------------------------------
\* Rolling feature buffer (processAudio / runInference)
\* ------------------------------------------------------------------------
\* A feature row is <<k, v>>: the k-th row produced (0 for the zero rows of the
\* zero-initialised global) with the dB value v of its bins.
ZeroRow == <<0, 0>>

\* the dB value of the k-th frame fed to the model: spans below -80, inside
\* [-80, 0] and above 0
MelValue(k) == ((k * 37) % 130) - 100

\* runInference: val = (val + 80) / 80; constrain(val, 0, 1), in 1/80ths
NormalizeDb(v) ==
    IF v + DB_RANGE < 0 THEN 0
    ELSE IF v + DB_RANGE > DB_RANGE THEN DB_RANGE
    ELSE v + DB_RANGE

\* processAudio: spectrogramIndex = (spectrogramIndex + 1) % SPEC_TIME_FRAMES
NextIndex(idx) == (idx + 1) % SPEC_TIME_FRAMES

\* runInference: srcIndex = (spectrogramIndex + t) % SPEC_TIME_FRAMES
\* (variant: the copy starts at row 0 instead of the cursor)
SrcIndexNoCursor(idx, t) == t
SrcIndex(idx, t) == (idx + t) % SPEC_TIME_FRAMES

\* processAudio: memcpy of melFrame to row spectrogramIndex, cursor advanced
processAudio ==
    /\ melSpectrogram' = [melSpectrogram EXCEPT ![spectrogramIndex] =
                              <<nInserted + 1, MelValue(nInserted + 1)>>]
    /\ spectrogramIndex' = NextIndex(spectrogramIndex)
    /\ nInserted' = nInserted + 1

\* runInference, up to Invoke(): nothing is copied when the interpreter or a
\* tensor is null; it reads the buffer processAudio has just written
runInferenceCopy ==
    inputData' =
        IF interpreterOk
        THEN [t \in Rows |->
                 LET row == melSpectrogram'[SrcIndex(spectrogramIndex', t)]
                 IN <<row[1], NormalizeDb(row[2])>>]
        ELSE inputData

\* ------------------------------------------------------------------------
\* AlertManager
\* ------------------------------------------------------------------------
\* triggerAlert(durationMs), with t the value millis() returns in it
triggerAlert(t, durationMs) ==
    /\ alertActive' = TRUE
    /\ hapticOnly' = FALSE
    /\ alertStartTime' = t
    /\ alertDuration' = durationMs
    /\ pulseState' = TRUE
    /\ lastPulseTime' = t
    /\ buzzer' = TRUE
    /\ vibration' = TRUE
    /\ pulseOnTime' = ALERT_PULSE_ON_MS
    /\ pulseOffTime' = ALERT_PULSE_OFF_MS

\* triggerHapticOnly(durationMs): the buzzer pin is not written
triggerHapticOnly(t, durationMs) ==
    /\ alertActive' = TRUE
    /\ hapticOnly' = TRUE
    /\ alertStartTime' = t
    /\ alertDuration' = durationMs
    /\ pulseState' = TRUE
    /\ lastPulseTime' = t
    /\ vibration' = TRUE
    /\ pulseOnTime' = HAPTIC_PULSE_ON_MS
    /\ pulseOffTime' = HAPTIC_PULSE_OFF_MS
    /\ UNCHANGED buzzer

\* playTone(frequency, durationMs): the LEDC channel drives the buzzer pin for
\* the blocking delay, then the pin is detached and written LOW
playTone ==
    /\ buzzer' = FALSE
    /\ UNCHANGED <<alertActive, hapticOnly, alertStartTime, alertDuration,
                   pulseState, lastPulseTime, pulseOnTime, pulseOffTime, vibration>>

\* the time a pattern [freq1, dur1, freq2, dur2, ...] takes
RECURSIVE PatternDuration(_)
PatternDuration(pattern) ==
    IF Len(pattern) < 2 THEN 0
    ELSE pattern[2] + PatternDuration(SubSeq(pattern, 3, Len(pattern)))

\* the pattern has a step with freq > 0, which playPattern plays with playTone
RECURSIVE HasTone(_)
HasTone(pattern) ==
    IF Len(pattern) < 2 THEN FALSE
    ELSE pattern[1] > 0 \/ HasTone(SubSeq(pattern, 3, Len(pattern)))

\* playPattern(pattern, length): playTone for each step with freq > 0, a
\* delay for each pause
playPattern(pattern) ==
    IF HasTone(pattern) THEN playTone ELSE UNCHANGED amVars

\* (variant: the pins are not written)
stopAlertKeepsOutputs ==
    /\ alertActive' = FALSE
    /\ UNCHANGED <<hapticOnly, alertStartTime, alertDuration, pulseState,
                   lastPulseTime, pulseOnTime, pulseOffTime, buzzer, vibration>>
\* stopAlert()
stopAlert ==
    /\ alertActive' = FALSE
    /\ buzzer' = FALSE
    /\ vibration' = FALSE
    /\ UNCHANGED <<hapticOnly, alertStartTime, alertDuration, pulseState,
                   lastPulseTime, pulseOnTime, pulseOffTime>>

\* (variant: > in place of >=)
AlertExpiredStrict(t) == alertDuration > 0 /\ (t - alertStartTime) > alertDuration
\* update(): _alertDuration > 0 && (now - _alertStartTime) >= _alertDuration
AlertExpired(t) == alertDuration > 0 /\ (t - alertStartTime) >= alertDuration

\* update(): now - _lastPulseTime >= (_pulseState ? _pulseOnTime : _pulseOffTime)
\* (variant: > in place of >=)
PulseElapsedStrict(t) ==
    (t - lastPulseTime) > (IF pulseState THEN pulseOnTime ELSE pulseOffTime)
PulseElapsed(t) ==
    (t - lastPulseTime) >= (IF pulseState THEN pulseOnTime ELSE pulseOffTime)

\* update(), with t the value millis() returns in it
update(t) ==
    IF ~alertActive THEN UNCHANGED amVars
    ELSE IF AlertExpired(t) THEN stopAlert
    ELSE IF PulseElapsed(t)
    THEN /\ pulseState' = ~pulseState
         /\ lastPulseTime' = t
         /\ IF ~pulseState
            THEN /\ buzzer' = (IF ~hapticOnly THEN TRUE ELSE buzzer)
                 /\ vibration' = TRUE
            ELSE /\ buzzer' = FALSE
                 /\ vibration' = FALSE
         /\ UNCHANGED <<alertActive, hapticOnly, alertStartTime, alertDuration,
                        pulseOnTime, pulseOffTime>>
    ELSE UNCHANGED amVars

\* ------------------------------------------------------------------------
\* DirectionEstimator
\* ------------------------------------------------------------------------
Abs(x) == IF x < 0 THEN -x ELSE x

\* integer division rounding toward zero, as a float quotient is read here
DivTrunc(n, d) == IF n < 0 THEN -((-n) \div d) ELSE n \div d

\* begin(): ceil(_maxDelaySamples), with _maxDelaySamples =
\* sqrt(2) * _micSpacingM / _speedOfSound * _sampleRate
MaxDelayCeil ==
    LET num == (MIC_SPACING_MM * SAMPLE_RATE) \div 1000
    IN CHOOSE n \in 0 .. 100 :
           /\ n * n * SPEED_OF_SOUND * SPEED_OF_SOUND >= 2 * num * num
           /\ (n - 1) * (n - 1) * SPEED_OF_SOUND * SPEED_OF_SOUND < 2 * num * num

\* crossCorrelate: maxLag = min((int)ceil(_maxDelaySamples) + 5, numSamples / 4)
MaxLag(numSamples) ==
    IF MaxDelayCeil + LAG_MARGIN < numSamples \div 4
    THEN MaxDelayCeil + LAG_MARGIN
    ELSE numSamples \div 4

\* a normalised correlation c / sqrt(n) is the pair <<c, n>>, n > 0;
\* the value 0 of the branch norm <= 1e-10 is <<0, 1>>
ZeroCorr == <<0, 1>>

\* crossCorrelate: corr > maxCorr, on two such pairs
CorrGreater(a, b) ==
    IF a[1] >= 0 /\ b[1] < 0 THEN TRUE
    ELSE IF a[1] < 0 /\ b[1] >= 0 THEN FALSE
    ELSE IF a[1] >= 0 THEN a[1] * a[1] * b[2] > b[1] * b[1] * a[2]
    ELSE a[1] * a[1] * b[2] < b[1] * b[1] * a[2]

\* sum of the function f over the set S of integers
RECURSIVE SumOver(_, _)
SumOver(S, f) ==
    IF S = {} THEN 0
    ELSE LET i == CHOOSE x \in S : TRUE
         IN f[i] + SumOver(S \ {i}, f)

\* crossCorrelate, inner loop: the normalised correlation at one lag; the
\* samples are indexed from 0 as in the code (sig[i + 1] of the sequence)
CorrAt(sig1, sig2, numSamples, lag) ==
    LET maxLag == MaxLag(numSamples)
        Is == {i \in maxLag .. (numSamples - maxLag - 1) :
                  i + lag >= 0 /\ i + lag < numSamples}
        P == [i \in Is |-> sig1[i + 1] * sig2[i + lag + 1]]
        N1 == [i \in Is |-> sig1[i + 1] * sig1[i + 1]]
        N2 == [i \in Is |-> sig2[i + lag + 1] * sig2[i + lag + 1]]
        corr == SumOver(Is, P)
        norm == SumOver(Is, N1) * SumOver(Is, N2)
    IN IF norm > 0 THEN <<corr, norm>> ELSE ZeroCorr

\* crossCorrelate, outer loop from lag on: <<bestLag, maxCorr>>, where best is
\* <<bestLag, maxCorr>> so far and maxCorr = <<>> stands for the initial -1e10
RECURSIVE BestFrom(_, _, _, _, _)
BestFrom(sig1, sig2, numSamples, lag, best) ==
    IF lag > MaxLag(numSamples) THEN best
    ELSE LET corr == CorrAt(sig1, sig2, numSamples, lag)
             better == best[2] = <<>> \/ CorrGreater(corr, best[2])
         IN BestFrom(sig1, sig2, numSamples, lag + 1,
                     IF better THEN <<lag, corr>> ELSE best)

\* crossCorrelate(sig1, sig2, numSamples, &confidence): <<refinedLag, confidence>>;
\* the sub-sample refinement is empty, so refinedLag = bestLag
crossCorrelate(sig1, sig2, numSamples) ==
    BestFrom(sig1, sig2, numSamples, -MaxLag(numSamples), <<0, <<>>>>)

\* tdoaToAzimuth: sinX = (_speedOfSound * dtX) / _micSpacingM with
\* dtX = (dt12 + dt34) / 2, constrained to [-1, 1], in thousandths
SinMilli(lagSum) ==
    LET v == DivTrunc(SPEED_OF_SOUND * lagSum * 1000,
                      2 * ((SAMPLE_RATE * MIC_SPACING_MM) \div 1000))
    IN IF v > 1000 THEN 1000 ELSE IF v < -1000 THEN -1000 ELSE v

\* atan2(y, x) * 180 / PI in degrees, for x = -sinY: a zero sinY gives
\* x = -0.0, for which atan2(+0, -0) is PI.  Exact on the axes and the
\* diagonals, which are the arguments the explored lags produce.
Atan2Deg(y, x) ==
    IF y = 0 THEN (IF x > 0 THEN 0 ELSE 180)
    ELSE IF x = 0 THEN (IF y > 0 THEN 90 ELSE -90)
    ELSE IF y > 0 THEN (IF x > 0 THEN 45 ELSE 135)
    ELSE (IF x > 0 THEN -45 ELSE -135)

\* tdoaToAzimuth(tdoa12, tdoa14, tdoa32, tdoa34), in 1/ANGLE_UNIT degrees
tdoaToAzimuth(tdoa12, tdoa14, tdoa32, tdoa34) ==
    LET sinX == SinMilli(tdoa12 + tdoa34)
        sinY == SinMilli(tdoa14 + tdoa32)
        azimuth == Atan2Deg(sinX, -sinY) * ANGLE_UNIT
    IN IF azimuth < 0 THEN azimuth + 360 * ANGLE_UNIT ELSE azimuth

\* estimateDirection: _lastConfidence = (conf12 + conf14 + conf32 + conf34) / 4
MeanConfidence(confs) == (confs[1] + confs[2] + confs[3] + confs[4]) \div 4

\* estimateDirection: if (_lastConfidence < 0.5f) return _smoothedDirection
\* (variant: the test left out)
IsLowConfidenceNever(mean) == FALSE
IsLowConfidence(mean) == mean < MIN_CORRELATION

\* estimateDirection: if (diff > 180) diff -= 360; if (diff < -180) diff += 360
\* (variant: no wrap-around handling)
WrapDiffNone(diff) == diff
WrapDiff(diff) ==
    LET d1 == IF diff > 180 * ANGLE_UNIT THEN diff - 360 * ANGLE_UNIT ELSE diff
    IN IF d1 < -180 * ANGLE_UNIT THEN d1 + 360 * ANGLE_UNIT ELSE d1

\* estimateDirection: if (s < 0) s += 360; if (s >= 360) s -= 360
NormalizeDirection(s) ==
    LET s1 == IF s < 0 THEN s + 360 * ANGLE_UNIT ELSE s
    IN IF s1 >= 360 * ANGLE_UNIT THEN s1 - 360 * ANGLE_UNIT ELSE s1

\* estimateDirection: the smoothed bearing after an update towards azimuth
SmoothTowards(smoothed, azimuth) ==
    NormalizeDirection(smoothed +
        DivTrunc(SMOOTHING_TENTHS * WrapDiff(azimuth - smoothed), 10))

\* the DirectionEstimator constructor
DirConstructed ==
    /\ smoothedDirection = 0
    /\ lastConfidence = 0
    /\ dirAzimuth = 0
    /\ dirPrevious = 0
    /\ dirReturned = 0
    /\ dirCalls = 0

\* no crossCorrelate call under way
XcIdle ==
    /\ xcSig1 = <<>>
    /\ xcSig2 = <<>>
    /\ xcLag = 0
    /\ xcConfidence = ZeroCorr
    /\ xcDone = FALSE

\* ------------------------------------------------------------------------
\* AudioProcessor (computeMelSpectrogram)
\* ------------------------------------------------------------------------
Bands == 1 .. MelBands

\* 20 * log10(max(sum, 1e-10f)) for a filterbank sum 10^e
MelDb(e) == 20 * (IF e < MEL_FLOOR_EXP THEN MEL_FLOOR_EXP ELSE e)

\* computeMelSpectrogram, one band: the noise floor is subtracted and the
\* result floored at zero only if _noiseFloor[m] != 0.0f
\* (variant: the noise floor is subtracted and the result floored whatever
\* the value of _noiseFloor[m])
MelBandAlwaysFloors(e, floor) ==
    IF MelDb(e) - floor < 0 THEN 0 ELSE MelDb(e) - floor
MelBand(e, floor) ==
    IF floor # 0
    THEN (IF MelDb(e) - floor < 0 THEN 0 ELSE MelDb(e) - floor)
    ELSE MelDb(e)

\* one frame: melOutput for the filterbank sums under the noise floor
MelFrame(sums, floor) == [m \in Bands |-> MelBand(sums[m], floor[m])]

\* enterCalibrationMode, the collection loop from frame k + 1 on:
\* noiseFloor[i] = (noiseFloor[i] * sampleCount + melFrame[i]) /
\* (sampleCount + 1), with computeMelSpectrogram run under the installed
\* profile; acc is the local noiseFloor after k frames
RECURSIVE RunningMean(_, _, _, _)
RunningMean(frames, k, acc, installed) ==
    IF k >= Len(frames) THEN acc
    ELSE RunningMean(frames, k + 1,
             [m \in Bands |->
                 DivTrunc(acc[m] * k + MelFrame(frames[k + 1], installed)[m],
                          k + 1)],
             installed)

\* the zero-initialised melSpectrogram and tensor, no calibration run yet
CalConstructed ==
    /\ calRows = [r \in Rows |-> [m \in Bands |-> 0]]
    /\ calIndex = 0
    /\ calTensor = [r \in Rows |-> [m \in Bands |-> 0]]
    /\ calFresh = [r \in Rows |-> [m \in Bands |-> FALSE]]
    /\ calFrames = <<>>
    /\ calPrevious = [m \in Bands |-> 0]
    /\ calCycles = 0
    /\ calRuns = 0

\* AudioProcessor::begin: memset(_noiseFloor, 0, ...)
MelConstructed ==
    /\ noiseFloor = [m \in Bands |-> 0]
    /\ melInput = [m \in Bands |-> 0]
    /\ melOutput = [m \in Bands |-> 0]
    /\ melDone = FALSE
    /\ CalConstructed

\* the signal-processing objects after construction and begin()
DspConstructed == DirConstructed /\ XcIdle /\ MelConstructed

\* ------------------------------------------------------------------------
\* Detection orchestrator (setup / loop)
\* ------------------------------------------------------------------------
\* what setup() can find failing: display.begin, i2s_driver_install /
\* i2s_set_pin, model version / AllocateTensors
SetupFaults == {"none", "display", "i2s", "model"}

\* loop(): currentTime - lastProcessTime >= (HOP_SIZE * 1000 / SAMPLE_RATE)
\* (variant: no hop gate)
HopElapsedAlways(t, last) == TRUE
HopElapsed(t, last) == (t - last) >= HopIntervalMs

\* loop(): currentConfidence >= CONFIDENCE_THRESHOLD
Qualifies(c) == c >= CONFIDENCE_THRESHOLD

\* loop(): detectionCount >= MIN_DETECTIONS_FOR_ALERT &&
\*         currentTime - lastAlertTime >= ALERT_HOLDOFF_MS
\* (variant: the holdoff test left out)
ShouldAlertNoHoldoff(count, t, last) == count >= MIN_DETECTIONS_FOR_ALERT
\* (variant: the alert test nested in the detection branch, so that only a
\* cycle that has incremented detectionCount can alert)
ShouldAlertOnDetection(count, t, last) ==
    /\ count > detectionCount
    /\ count >= MIN_DETECTIONS_FOR_ALERT
    /\ (t - last) >= ALERT_HOLDOFF_MS
\* (variant: the holdoff applies only once an alert has been triggered)
ShouldAlertAfterFirst(count, t, last) ==
    /\ count >= MIN_DETECTIONS_FOR_ALERT
    /\ (last = 0 \/ (t - last) >= ALERT_HOLDOFF_MS)
\* (variant: the count test left out)
ShouldAlertHoldoffOnly(count, t, last) == (t - last) >= ALERT_HOLDOFF_MS
ShouldAlert(count, t, last) ==
    count >= MIN_DETECTIONS_FOR_ALERT /\ (t - last) >= ALERT_HOLDOFF_MS

\* loop(): currentTime - lastDetectionTime > DETECTION_WINDOW_MS
\* (variant: >= in place of >)
ShouldDecayAtWindow(t, last) == (t - last) >= DETECTION_WINDOW_MS
ShouldDecay(t, last) == (t - last) > DETECTION_WINDOW_MS

\* handleButton(): its effect on currentState
HandleButton(state, b) ==
    IF b = "long" THEN "CALIBRATE"
    ELSE IF b = "single"
    THEN (IF state = "SCAN" THEN "MONITOR"
          ELSE IF state = "MONITOR" THEN "SCAN" ELSE state)
    ELSE state

\* loop(): handleButton() first, then the battery check overrides the state
\* (variant: the battery check placed before handleButton)
StateAfterTopBatteryFirst(state, b, low) ==
    HandleButton(IF low THEN "LOW_BATTERY" ELSE state, b)
StateAfterTop(state, b, low) ==
    IF low THEN "LOW_BATTERY" ELSE HandleButton(state, b)

\* bound: a step taking d ms stays within MaxTime, the time spent in
\* calibration runs left out
InTime(d) ==
    now + d - calibrations * (CALIBRATION_MS + CALIBRATION_DONE_DELAY_MS) <= MaxTime

\* the state after construction: the globals' initialisers and the
\* AlertManager constructor
Constructed ==
    /\ now = 0
    /\ currentTime = 0
    /\ batteryLow = FALSE
    /\ lastProcessTime = 0
    /\ currentState = "INIT"
    /\ currentConfidence = 0
    /\ detectionCount = 0
    /\ lastDetectionTime = 0
    /\ lastAlertTime = 0
    /\ audioMuted = FALSE
    /\ interpreterOk = FALSE
    /\ setupError = FALSE
    /\ melSpectrogram = [r \in Rows |-> ZeroRow]
    /\ spectrogramIndex = 0
    /\ inputData = [r \in Rows |-> ZeroRow]
    /\ alertActive = FALSE
    /\ hapticOnly = FALSE
    /\ alertStartTime = 0
    /\ alertDuration = 0
    /\ pulseState = FALSE
    /\ lastPulseTime = 0
    /\ pulseOnTime = INIT_PULSE_ON_MS
    /\ pulseOffTime = INIT_PULSE_OFF_MS
    /\ buzzer = FALSE
    /\ vibration = FALSE
    /\ lastOp = "none"
    /\ nInserted = 0
    /\ qualTimes = <<>>
    /\ alertTriggers = 0
    /\ scanToAlert = 0
    /\ calibrations = 0

Init == pc = "boot" /\ Constructed /\ DspConstructed

\* setup(): the subsystem set-ups may assign STATE_ERROR; alertManager.begin
\* drives both pins low; then currentState = STATE_SCAN unconditionally
Setup(faults) ==
    /\ pc = "boot"
    /\ UNCHANGED dspVars
    /\ \E f \in faults, t \in BootTimes :
          /\ setupError' = (f # "none")
          /\ interpreterOk' = (f # "model")
          /\ now' = t
    /\ currentState' = "SCAN"
    /\ buzzer' = FALSE
    /\ vibration' = FALSE
    /\ pc' = "top"
    /\ lastOp' = "setup"
    /\ UNCHANGED <<currentTime, batteryLow, lastProcessTime, currentConfidence,
                   detectionCount, lastDetectionTime, lastAlertTime, audioMuted,
                   bufVars, alertActive, hapticOnly, alertStartTime, alertDuration,
                   pulseState, lastPulseTime, pulseOnTime, pulseOffTime,
                   nInserted, qualTimes, alertTriggers, scanToAlert, calibrations>>

\* loop(), lines up to the switch: currentTime = millis(); handleButton();
\* the battery check
LoopTop(buttons, lows) ==
    /\ pc = "top"
    /\ UNCHANGED dspVars
    /\ \E b \in buttons, low \in lows :
          /\ currentState' = StateAfterTop(currentState, b, low)
          /\ audioMuted' = (IF b = "double" THEN ~audioMuted ELSE audioMuted)
          /\ batteryLow' = low
    /\ currentTime' = now
    /\ pc' = "switch"
    /\ lastOp' = "top"
    /\ UNCHANGED <<now, lastProcessTime, currentConfidence, detectionCount,
                   lastDetectionTime, lastAlertTime, interpreterOk, setupError,
                   bufVars, amVars, nInserted, qualTimes, alertTriggers,
                   scanToAlert, calibrations>>

\* the latest MIN_DETECTIONS_FOR_ALERT qualifying loop times, oldest first
PushQual(q, t) ==
    IF Len(q) < MIN_DETECTIONS_FOR_ALERT THEN Append(q, t)
    ELSE Append(Tail(q), t)

\* case STATE_SCAN / STATE_ALERT with the hop gate open: readAudioSamples,
\* processAudio, runInference, the detection count, the alert decision, the
\* decay.  c is the confidence the model returns, d the time the cycle takes
\* up to the alert decision.
ScanProcess(confs, durs, maxRows, maxCount) ==
    /\ pc = "switch"
    /\ UNCHANGED dspVars
    /\ currentState \in {"SCAN", "ALERT"}
    /\ HopElapsed(currentTime, lastProcessTime)
    /\ nInserted < maxRows
    /\ \E c \in confs, d \in durs :
          LET conf == IF interpreterOk THEN c ELSE 0
              count1 == IF Qualifies(conf) THEN detectionCount + 1
                        ELSE detectionCount
              lastDet1 == IF Qualifies(conf) THEN currentTime
                          ELSE lastDetectionTime
              alert == ShouldAlert(count1, currentTime, lastAlertTime)
              state1 == IF alert THEN "ALERT" ELSE currentState
              decay == ShouldDecay(currentTime, lastDet1)
          IN /\ InTime(d)
             /\ count1 <= maxCount
             /\ now' = now + d
             /\ currentConfidence' = conf
             /\ detectionCount' = (IF decay THEN 0 ELSE count1)
             /\ lastDetectionTime' = lastDet1
             /\ lastAlertTime' = (IF alert THEN currentTime ELSE lastAlertTime)
             /\ currentState' =
                   (IF decay /\ state1 = "ALERT" THEN "SCAN" ELSE state1)
             /\ IF alert
                THEN IF ~audioMuted
                     THEN triggerAlert(now + d, ALERT_DURATION_MS)
                     ELSE triggerHapticOnly(now + d, ALERT_DURATION_MS)
                ELSE UNCHANGED amVars
             /\ qualTimes' = (IF Qualifies(conf)
                              THEN PushQual(qualTimes, currentTime)
                              ELSE qualTimes)
             /\ alertTriggers' = alertTriggers + (IF alert THEN 1 ELSE 0)
             /\ scanToAlert' = scanToAlert +
                   (IF alert /\ currentState = "SCAN" THEN 1 ELSE 0)
             /\ lastOp' = (IF alert THEN "alert" ELSE "process")
    /\ lastProcessTime' = currentTime
    /\ processAudio
    /\ runInferenceCopy
    /\ pc' = "update"
    /\ UNCHANGED <<currentTime, batteryLow, audioMuted, interpreterOk, setupError,
                   calibrations>>

\* case STATE_SCAN / STATE_ALERT with the hop gate closed: display and LEDs only
ScanIdle ==
    /\ pc = "switch"
    /\ UNCHANGED dspVars
    /\ currentState \in {"SCAN", "ALERT"}
    /\ ~HopElapsed(currentTime, lastProcessTime)
    /\ \E d \in IdleDurations : InTime(d) /\ now' = now + d
    /\ pc' = "update"
    /\ lastOp' = "idle"
    /\ UNCHANGED <<currentTime, batteryLow, lastProcessTime, detVars, bufVars,
                   amVars, nInserted, qualTimes, alertTriggers, scanToAlert, calibrations>>

\* case STATE_MONITOR with the hop gate open: readAudioSamples, processAudio
MonitorProcess(durs, maxRows) ==
    /\ pc = "switch"
    /\ UNCHANGED dspVars
    /\ currentState = "MONITOR"
    /\ HopElapsed(currentTime, lastProcessTime)
    /\ nInserted < maxRows
    /\ \E d \in durs : InTime(d) /\ now' = now + d
    /\ lastProcessTime' = currentTime
    /\ processAudio
    /\ pc' = "update"
    /\ lastOp' = "monitor"
    /\ UNCHANGED <<currentTime, batteryLow, detVars, inputData, amVars,
                   qualTimes, alertTriggers, scanToAlert, calibrations>>

\* case STATE_MONITOR with the hop gate closed
MonitorIdle ==
    /\ pc = "switch"
    /\ UNCHANGED dspVars
    /\ currentState = "MONITOR"
    /\ ~HopElapsed(currentTime, lastProcessTime)
    /\ \E d \in IdleDurations : InTime(d) /\ now' = now + d
    /\ pc' = "update"
    /\ lastOp' = "monitorIdle"
    /\ UNCHANGED <<currentTime, batteryLow, lastProcessTime, detVars, bufVars,
                   amVars, nInserted, qualTimes, alertTriggers, scanToAlert, calibrations>>

\* case STATE_CALIBRATE: enterCalibrationMode() blocks for the collection
\* loop and the closing delay, then currentState = STATE_SCAN
Calibrate ==
    /\ pc = "switch"
    /\ UNCHANGED dspVars
    /\ currentState = "CALIBRATE"
    /\ calibrations < MaxCalibrations
    /\ calibrations' = calibrations + 1
    /\ now' = now + CALIBRATION_MS + CALIBRATION_DONE_DELAY_MS
    /\ currentState' = "SCAN"
    /\ pc' = "update"
    /\ lastOp' = "calibrate"
    /\ UNCHANGED <<currentTime, batteryLow, lastProcessTime, currentConfidence,
                   detectionCount, lastDetectionTime, lastAlertTime, audioMuted,
                   interpreterOk, setupError, bufVars, amVars, nInserted,
                   qualTimes, alertTriggers, scanToAlert>>

\* case STATE_LOW_BATTERY / STATE_ERROR: a message and delay(1000)
Degraded ==
    /\ pc = "switch"
    /\ UNCHANGED dspVars
    /\ currentState \in {"LOW_BATTERY", "ERROR"}
    /\ InTime(DEGRADED_DELAY_MS)
    /\ now' = now + DEGRADED_DELAY_MS
    /\ pc' = "update"
    /\ lastOp' = "degraded"
    /\ UNCHANGED <<currentTime, batteryLow, lastProcessTime, detVars, bufVars,
                   amVars, nInserted, qualTimes, alertTriggers, scanToAlert, calibrations>>

\* loop(), after the switch: alertManager.update()
Update ==
    /\ pc = "update"
    /\ UNCHANGED dspVars
    /\ update(now)
    /\ pc' = "top"
    /\ lastOp' = "update"
    /\ UNCHANGED <<now, currentTime, batteryLow, lastProcessTime, detVars,
                   bufVars, nInserted, qualTimes, alertTriggers, scanToAlert, calibrations>>

\* the firmware under every button, battery, confidence and timing input
Next ==
    \/ Setup({"none", "model"})
    \/ LoopTop(Buttons, BOOLEAN)
    \/ ScanProcess(Confidences, ProcDurations, MaxCycles, MaxCount)
    \/ ScanIdle
    \/ MonitorProcess(ProcDurations, MaxCycles)
    \/ MonitorIdle
    \/ Calibrate
    \/ Degraded
    \/ Update

Spec == Init /\ [][Next]_vars

\* ------------------------------------------------------------------------
\* The rolling buffer over more than SPEC_TIME_FRAMES hops: SCAN and MONITOR
\* cycles with a silent model, battery good
\* ------------------------------------------------------------------------
NextBuf ==
    \/ Setup(SetupFaults)
    \/ LoopTop({"none", "single"}, {FALSE})
    \/ ScanProcess({0}, BufDurations, MaxRows, MaxCount)
    \/ MonitorProcess(BufDurations, MaxRows)
    \/ Update

SpecBuf == Init /\ [][NextBuf]_vars

\* ------------------------------------------------------------------------
\* The end-to-end scenario: NumHops consecutive hops, each with the forced
\* confidence, no button press, battery good, set-up without fault
\* ------------------------------------------------------------------------
NextE2E ==
    \/ Setup({"none"})
    \/ LoopTop({"none"}, {FALSE})
    \/ ScanProcess(E2EConfidences, E2EDurations, NumHops, NumHops)
    \/ Update

SpecE2E == Init /\ [][NextE2E]_vars

\* ------------------------------------------------------------------------
\* AlertManager under every sequence of calls of its interface after begin()
\* ------------------------------------------------------------------------
InitAM == pc = "api" /\ Constructed /\ DspConstructed

apiFrame == <<pc, currentTime, batteryLow, lastProcessTime, detVars, bufVars,
              nInserted, qualTimes, alertTriggers, scanToAlert, calibrations>>

AmTick ==
    /\ pc = "api"
    /\ UNCHANGED dspVars
    /\ \E d \in ApiTicks : now + d <= MaxApiTime /\ now' = now + d
    /\ lastOp' = "tick"
    /\ UNCHANGED <<apiFrame, amVars>>

AmTriggerAlert ==
    /\ pc = "api"
    /\ UNCHANGED dspVars
    /\ \E d \in ApiDurations : triggerAlert(now, d)
    /\ lastOp' = "triggerAlert"
    /\ UNCHANGED <<apiFrame, now>>

AmTriggerHapticOnly ==
    /\ pc = "api"
    /\ UNCHANGED dspVars
    /\ \E d \in ApiDurations : triggerHapticOnly(now, d)
    /\ lastOp' = "triggerHapticOnly"
    /\ UNCHANGED <<apiFrame, now>>

AmUpdate ==
    /\ pc = "api"
    /\ UNCHANGED dspVars
    /\ update(now)
    /\ lastOp' = "update"
    /\ UNCHANGED <<apiFrame, now>>

AmStopAlert ==
    /\ pc = "api"
    /\ UNCHANGED dspVars
    /\ stopAlert
    /\ lastOp' = "stopAlert"
    /\ UNCHANGED <<apiFrame, now>>

\* durations passed to playTone in SpecAM
ToneDurations == {50, 100}

\* patterns passed to playPattern in SpecAM: a tone, a pause, and the first
\* two steps of AlertPatterns::DETECTION
Patterns == {<<1000, 50>>, <<0, 50>>, <<2000, 100, 0, 50>>}

AmPlayTone ==
    /\ pc = "api"
    /\ UNCHANGED dspVars
    /\ \E d \in ToneDurations : now + d <= MaxApiTime /\ now' = now + d
    /\ playTone
    /\ lastOp' = "playTone"
    /\ UNCHANGED apiFrame

AmPlayPattern ==
    /\ pc = "api"
    /\ UNCHANGED dspVars
    /\ \E pattern \in Patterns :
          /\ now + PatternDuration(pattern) <= MaxApiTime
          /\ now' = now + PatternDuration(pattern)
          /\ playPattern(pattern)
    /\ lastOp' = "playPattern"
    /\ UNCHANGED apiFrame

NextAM ==
    \/ AmTick
    \/ AmTriggerAlert
    \/ AmTriggerHapticOnly
    \/ AmUpdate
    \/ AmStopAlert
    \/ AmPlayTone
    \/ AmPlayPattern

SpecAM == InitAM /\ [][NextAM]_vars

\* ------------------------------------------------------------------------
\* DirectionEstimator::estimateDirection under every sequence of calls
\* ------------------------------------------------------------------------
\* the orchestrator and the AlertManager, which the signal-processing calls
\* do not touch
fwFrame == <<pc, now, currentTime, batteryLow, lastProcessTime, detVars,
             bufVars, amVars, histVars>>

\* the lags <<tdoa12, tdoa14, tdoa32, tdoa34>> the four crossCorrelate calls
\* return: within [-maxLag, maxLag] for FFT_SIZE samples, on the axes and
\* diagonals of the array, clamped (15) and not (5)
DirLags ==
    {<<a, b, 0, 0>> : a \in {-15, 0, 15}, b \in {-15, 0, 15}}
        \cup {<<5, 5, 5, 5>>, <<-5, 5, 5, -5>>}

\* the confidences <<conf12, conf14, conf32, conf34>> they return, in
\* hundredths: means 1.0, 0.5, 0.25 and 0
DirConfs ==
    {<<100, 100, 100, 100>>, <<100, 100, 0, 0>>, <<100, 0, 0, 0>>, <<0, 0, 0, 0>>}

InitDir == pc = "dir" /\ Constructed /\ DspConstructed

\* estimateDirection(mic1, mic2, mic3, mic4, numSamples)
EstimateDirection ==
    /\ pc = "dir"
    /\ dirCalls < MaxDirCalls
    /\ \E lags \in DirLags, confs \in DirConfs :
          LET mean == MeanConfidence(confs)
              azimuth == tdoaToAzimuth(lags[1], lags[2], lags[3], lags[4])
              smoothed == IF IsLowConfidence(mean) THEN smoothedDirection
                          ELSE SmoothTowards(smoothedDirection, azimuth)
          IN /\ lastConfidence' = mean
             /\ smoothedDirection' = smoothed
             /\ dirReturned' = smoothed
             /\ dirAzimuth' = azimuth
    /\ dirPrevious' = smoothedDirection
    /\ dirCalls' = dirCalls + 1
    /\ UNCHANGED <<fwFrame, xcVars, melVars>>

NextDir == EstimateDirection

SpecDir == InitDir /\ [][NextDir]_vars

\* ------------------------------------------------------------------------
\* DirectionEstimator::crossCorrelate on every pair of signals of XcSamples
\* samples
\* ------------------------------------------------------------------------
Signals == [1 .. XcSamples -> {-1, 0, 1}]

InitXc ==
    /\ pc = "xc"
    /\ Constructed
    /\ DirConstructed
    /\ MelConstructed
    /\ xcSig1 \in Signals
    /\ xcSig2 \in Signals
    /\ xcLag = 0
    /\ xcConfidence = ZeroCorr
    /\ xcDone = FALSE

\* crossCorrelate(sig1, sig2, numSamples, &confidence)
CrossCorrelate ==
    /\ pc = "xc"
    /\ ~xcDone
    /\ LET r == crossCorrelate(xcSig1, xcSig2, XcSamples)
       IN xcLag' = r[1] /\ xcConfidence' = r[2]
    /\ xcDone' = TRUE
    /\ UNCHANGED <<fwFrame, dirVars, melVars, xcSig1, xcSig2>>

NextXc == CrossCorrelate

SpecXc == InitXc /\ [][NextXc]_vars

\* ------------------------------------------------------------------------
\* AudioProcessor::computeMelSpectrogram under every noise-floor profile
\* ------------------------------------------------------------------------
\* noise-floor values in dB: the running average of the frames of a
\* calibration run
NoiseLevels == {-40, 0, 20}

\* filterbank sums of a band as powers of ten: below the 1e-10 floor, 1e-3,
\* 1 and 1e3
MelExps == {-12, -3, 0, 3}

InitMel == pc = "mel" /\ Constructed /\ DspConstructed

\* setNoiseFloor(noiseFloor): memcpy into _noiseFloor
SetNoiseFloor ==
    /\ pc = "mel"
    /\ \E profile \in [Bands -> NoiseLevels] : noiseFloor' = profile
    /\ UNCHANGED <<fwFrame, dirVars, xcVars, melInput, melOutput, melDone,
                   calVars>>

\* computeMelSpectrogram, from the filterbank sums on
ComputeMelSpectrogram ==
    /\ pc = "mel"
    /\ \E sums \in [Bands -> MelExps] :
          /\ melInput' = sums
          /\ melOutput' = [m \in Bands |-> MelBand(sums[m], noiseFloor[m])]
    /\ melDone' = TRUE
    /\ UNCHANGED <<fwFrame, dirVars, xcVars, noiseFloor, calVars>>

NextMel == SetNoiseFloor \/ ComputeMelSpectrogram

SpecMel == InitMel /\ [][NextMel]_vars

\* ------------------------------------------------------------------------
\* Processing cycles and calibration runs: the feature rows under the
\* installed noise floor, the rolling buffer and the tensor
\* ------------------------------------------------------------------------
\* filterbank sums (powers of ten) equal in every band
Uniform(e) == [m \in Bands |-> e]

\* filterbank sums of 1 in the first band and 1e-3 in the others
Mixed == [m \in Bands |-> IF m = 1 THEN 0 ELSE -3]

\* the frames of a processing cycle
CalSums == {Uniform(-3), Uniform(3), Mixed}

\* the frames of a calibration run (the collection loop runs for 30 s; one
\* or two frames stand for it)
CalFrameSeqs ==
    {<<Uniform(-3)>>, <<Uniform(-3), Uniform(3)>>, <<Uniform(3), Uniform(3)>>,
     <<Mixed, Uniform(0)>>}

InitCal == pc = "cal" /\ Constructed /\ DspConstructed

\* a processing cycle: processAudio (computeMelSpectrogram, the memcpy to row
\* spectrogramIndex, the cursor advanced), then runInference's copy
CalProcessCycle ==
    /\ pc = "cal"
    /\ calCycles < MaxCalCycles
    /\ \E sums \in CalSums :
          calRows' = [calRows EXCEPT ![calIndex] = MelFrame(sums, noiseFloor)]
    /\ calFresh' = [calFresh EXCEPT ![calIndex] =
                       [m \in Bands |-> noiseFloor[m] # 0]]
    /\ calIndex' = NextIndex(calIndex)
    /\ calTensor' = [t \in Rows |-> [m \in Bands |->
                        NormalizeDb(calRows'[SrcIndex(calIndex', t)][m])]]
    /\ calCycles' = calCycles + 1
    /\ UNCHANGED <<fwFrame, dirVars, xcVars, noiseFloor, melInput, melOutput,
                   melDone, calFrames, calPrevious, calRuns>>

\* enterCalibrationMode: the running mean of the frames, then setNoiseFloor
CalibrationRun ==
    /\ pc = "cal"
    /\ calRuns < MaxCalRuns
    /\ \E frames \in CalFrameSeqs :
          /\ noiseFloor' = RunningMean(frames, 0, [m \in Bands |-> 0], noiseFloor)
          /\ calFrames' = frames
    /\ calPrevious' = noiseFloor
    /\ calRuns' = calRuns + 1
    /\ UNCHANGED <<fwFrame, dirVars, xcVars, melInput, melOutput, melDone,
                   calRows, calIndex, calTensor, calFresh, calCycles>>

NextCal == CalProcessCycle \/ CalibrationRun

SpecCal == InitCal /\ [][NextCal]_vars

\* ------------------------------------------------------------------------
\* Properties
\* ------------------------------------------------------------------------
\* the step is the switch branch of a SCAN/ALERT processing cycle
ScanCycleStep == pc = "switch" /\ lastOp' \in {"process", "alert"}

\* the longest processing or idle iteration of the model, in ms
MaxCycleMs ==
    CHOOSE m \in ProcDurations \cup IdleDurations :
        \A d \in ProcDurations \cup IdleDurations : d <= m

\* C1: any two consecutive alert triggers are at least ALERT_HOLDOFF_MS of
\* loop-sampled time apart: the step that triggers sets state ALERT and stamps
\* lastAlertTime with the loop time, and from the second trigger on that stamp
\* is at least the holdoff after the previous one, whatever the confidences.
C1_HoldoffBetweenAlerts ==
    [][alertTriggers' > alertTriggers =>
          /\ lastAlertTime' = currentTime
          /\ alertActive'
          /\ alertStartTime' = now'
          /\ (alertTriggers >= 1 =>
                lastAlertTime' - lastAlertTime >= ALERT_HOLDOFF_MS)]_vars

\* C1 witness: a second alert has just been triggered
C1_Witness == lastOp = "alert" /\ alertTriggers >= 2

\* C2: whenever detectionCount is at least MIN_DETECTIONS_FOR_ALERT, the
\* MIN_DETECTIONS_FOR_ALERT latest qualifying cycles all lie within the last
\* DETECTION_WINDOW_MS of loop time.
C2_CountWithinWindow ==
    detectionCount >= MIN_DETECTIONS_FOR_ALERT =>
        /\ Len(qualTimes) = MIN_DETECTIONS_FOR_ALERT
        /\ currentTime - qualTimes[1] <= DETECTION_WINDOW_MS

\* C3: in the end-to-end scenario (every hop qualifies) the SCAN -> ALERT
\* transition has happened exactly once as soon as MIN_DETECTIONS_FOR_ALERT
\* cycles have run, it happened on that cycle, and the actuator is active
\* right after it.
C3_AlertOnThirdCycle ==
    (pc = "top" /\ nInserted >= MIN_DETECTIONS_FOR_ALERT) =>
        /\ scanToAlert = 1
        /\ alertTriggers >= 1
        /\ (nInserted = MIN_DETECTIONS_FOR_ALERT =>
              /\ currentState = "ALERT"
              /\ lastAlertTime = lastProcessTime
              /\ alertActive)

\* C4: once setup has found a fault, the orchestrator is in ERROR whenever the
\* loop runs, and no frame is processed and no alert triggered.
C4_SetupErrorIsTerminal ==
    (pc # "boot" /\ setupError) =>
        /\ currentState = "ERROR"
        /\ nInserted = 0
        /\ alertTriggers = 0

\* C5: in a session started by triggerAlert(D), D > 0, an update() less than
\* D ms after the start keeps the session active; an update() D ms or more
\* after the start drives both outputs low and clears the active flag; an
\* update() of an inactive actuator changes nothing.
C5_UpdateStopsAtDuration ==
    [][(pc = "api" /\ lastOp' = "update") =>
          /\ (alertActive /\ ~hapticOnly /\ alertDuration > 0 =>
                IF now - alertStartTime < alertDuration
                THEN alertActive'
                ELSE ~alertActive' /\ ~buzzer' /\ ~vibration')
          /\ (~alertActive => UNCHANGED amVars)]_vars

\* C5 witness: update() has just ended a full session exactly D ms after it
\* was started
C5_Witness ==
    /\ lastOp = "update"
    /\ ~alertActive
    /\ ~hapticOnly
    /\ alertDuration > 0
    /\ now - alertStartTime = alertDuration
    /\ lastPulseTime > alertStartTime

\* C6: in a SCAN/ALERT processing cycle, when the loop time is more than
\* DETECTION_WINDOW_MS after lastDetectionTime the cycle ends with
\* detectionCount = 0 and state SCAN; otherwise the decay step leaves the count
\* (after this cycle's increment) and the state (after this cycle's alert
\* decision) as they are.
C6_DecayStep ==
    [][ScanCycleStep =>
          LET midCount == detectionCount +
                  (IF currentConfidence' >= CONFIDENCE_THRESHOLD THEN 1 ELSE 0)
              midState == IF alertTriggers' > alertTriggers THEN "ALERT"
                          ELSE currentState
          IN IF currentTime - lastDetectionTime' > DETECTION_WINDOW_MS
             THEN detectionCount' = 0 /\ currentState' = "SCAN"
             ELSE detectionCount' = midCount /\ currentState' = midState]_vars

\* C6 witness: a cycle that entered ALERT with a count accumulated more than
\* the window ago has ended in SCAN with the count reset
C6_Witness ==
    /\ pc = "update"
    /\ lastOp = "alert"
    /\ currentTime - lastDetectionTime > DETECTION_WINDOW_MS
    /\ detectionCount = 0
    /\ currentState = "SCAN"

\* C7: an active session of duration D is stopped no later than one control
\* cycle after D ms have elapsed, in every orchestrator state.
C7_SessionStoppedOnTime ==
    alertActive => now - alertStartTime < alertDuration + MaxCycleMs

\* C8: during a haptic-only session the buzzer output is low at every step.
C8_HapticNeverDrivesBuzzer == (alertActive /\ hapticOnly) => ~buzzer

\* the row expected t places after the cursor once n rows have been inserted
ExpectedRow(n, t) ==
    LET k == IF n >= SPEC_TIME_FRAMES THEN n - SPEC_TIME_FRAMES + t + 1
             ELSE IF t < SPEC_TIME_FRAMES - n THEN 0
             ELSE t - (SPEC_TIME_FRAMES - n) + 1
    IN IF k = 0 THEN ZeroRow ELSE <<k, MelValue(k)>>

\* C9: read from the cursor, the rolling buffer holds the rows in insertion
\* order, oldest first: the last SPEC_TIME_FRAMES rows once that many were
\* inserted, before that the zero rows followed by the inserted ones; and a
\* cycle's runInference leaves the tensor with those rows, normalised, in that
\* order.
C9_ChronologicalOrder ==
    \A t \in Rows :
        /\ melSpectrogram[(spectrogramIndex + t) % SPEC_TIME_FRAMES]
              = ExpectedRow(nInserted, t)
        /\ (pc = "update" /\ lastOp \in {"process", "alert"} /\ interpreterOk) =>
              inputData[t] = <<ExpectedRow(nInserted, t)[1],
                               NormalizeDb(ExpectedRow(nInserted, t)[2])>>

\* C9 witness: the buffer has wrapped around and a cycle has just copied it
C9_Witness ==
    /\ pc = "update"
    /\ lastOp = "process"
    /\ interpreterOk
    /\ nInserted > SPEC_TIME_FRAMES
    /\ spectrogramIndex # 0

\* the step belongs to a loop iteration whose battery reading is critical
LowBatteryIterationStep ==
    \/ pc = "top" /\ pc' = "switch" /\ batteryLow'
    \/ pc \in {"switch", "update"} /\ batteryLow

\* C10: in a loop iteration whose battery reading is below the critical
\* voltage the state becomes LOW_BATTERY whatever it was and whatever the
\* button requested, no frame is acquired, no inference runs, detectionCount
\* and lastAlertTime keep their values and no alert is triggered.
C10_LowBatteryOverrides ==
    [][LowBatteryIterationStep =>
          /\ currentState' = "LOW_BATTERY"
          /\ lastOp' \in {"top", "degraded", "update"}
          /\ ~(alertActive' /\ ~alertActive)
          /\ UNCHANGED <<detectionCount, lastAlertTime, lastDetectionTime,
                         currentConfidence, lastProcessTime, bufVars, nInserted,
                         alertTriggers, alertStartTime>>]_vars

\* C10 witness: a low-battery iteration has completed from a state with an
\* alert-level detection count
C10_Witness ==
    /\ pc = "top"
    /\ lastOp = "update"
    /\ batteryLow
    /\ currentState = "LOW_BATTERY"
    /\ detectionCount >= MIN_DETECTIONS_FOR_ALERT
    /\ alertTriggers >= 1

\* ------------------------------------------------------------------------
\* The firmware with its scheduling: the Arduino runtime calls loop() again
\* as soon as it returns, and every step of an iteration returns
\* ------------------------------------------------------------------------
SpecLive == Init /\ [][Next]_vars /\ WF_vars(Next)

AngularDistance(a, b) ==
    IF Abs(a - b) > 180 * ANGLE_UNIT THEN 360 * ANGLE_UNIT - Abs(a - b)
    ELSE Abs(a - b)

\* C12: after every estimateDirection call the smoothed bearing is in
\* [0, 360), and the call has moved it by at most 0.3 times the shortest
\* angular distance between the azimuth computed and the previous bearing.
C12_SmoothingBounded ==
    [][dirCalls' > dirCalls =>
          /\ smoothedDirection' >= 0
          /\ smoothedDirection' < 360 * ANGLE_UNIT
          /\ 10 * AngularDistance(smoothedDirection', smoothedDirection)
                <= SMOOTHING_TENTHS * AngularDistance(dirAzimuth', smoothedDirection)]_vars

\* C12 witness: a call has moved the bearing across the 0/360 boundary
C12_Witness ==
    /\ dirCalls >= 2
    /\ lastConfidence >= MIN_CORRELATION
    /\ Abs(smoothedDirection - dirPrevious) > 180 * ANGLE_UNIT

\* C13: a call whose mean confidence is below 0.5 returns the previous
\* smoothed bearing and leaves the smoothed bearing as it was, whatever the
\* four lags are.
C13_LowConfidenceKeepsBearing ==
    [][(dirCalls' > dirCalls /\ lastConfidence' < MIN_CORRELATION) =>
          /\ smoothedDirection' = smoothedDirection
          /\ dirReturned' = smoothedDirection]_vars

\* C13 witness: a low-confidence call whose lags point away from a non-zero
\* smoothed bearing has returned
C13_Witness ==
    /\ dirCalls >= 2
    /\ lastConfidence < MIN_CORRELATION
    /\ lastConfidence > 0
    /\ smoothedDirection # 0
    /\ dirAzimuth # smoothedDirection
    /\ dirReturned = dirPrevious

\* the signal has energy in the analysis region [maxLag, numSamples - maxLag)
HasEnergy(sig, numSamples) ==
    \E i \in MaxLag(numSamples) .. (numSamples - MaxLag(numSamples) - 1) :
        sig[i + 1] # 0

\* C14: for identical channels with energy in the analysis region,
\* crossCorrelate returns lag 0 and confidence 1.
C14_IdenticalChannels ==
    (xcDone /\ xcSig1 = xcSig2 /\ HasEnergy(xcSig1, XcSamples)) =>
        /\ xcLag = 0
        /\ xcConfidence[1] > 0
        /\ xcConfidence[1] * xcConfidence[1] = xcConfidence[2]

\* C17: the confidence crossCorrelate returns is in [0, 1] and the lag in
\* [-maxLag, maxLag].
C17_ConfidenceAndLagRange ==
    xcDone =>
        /\ xcConfidence[1] >= 0
        /\ xcConfidence[1] * xcConfidence[1] <= xcConfidence[2]
        /\ xcLag >= -MaxLag(XcSamples)
        /\ xcLag <= MaxLag(XcSamples)

C15_MonitorRunsNoAlertLogic ==
    [][(pc \in {"switch", "update"} /\ currentState = "MONITOR") =>
          /\ UNCHANGED <<detectionCount, lastDetectionTime, lastAlertTime,
                         currentConfidence, alertTriggers, alertStartTime,
                         inputData>>
          /\ ~(alertActive' /\ ~alertActive)
          /\ currentState' = "MONITOR"
          /\ nInserted' \in {nInserted, nInserted + 1}
          /\ (nInserted' > nInserted =>
                /\ currentTime - lastProcessTime >= HopIntervalMs
                /\ lastProcessTime' = currentTime)]_vars

\* C15 witness: a MONITOR cycle has appended a row while detections were
\* counted and rows had been appended before
C15_Witness ==
    /\ pc = "update"
    /\ lastOp = "monitor"
    /\ detectionCount >= 1
    /\ nInserted >= 2

\* the configured duration of the current pulse phase of the session
PhaseDurationMs ==
    IF hapticOnly
    THEN (IF pulseState THEN HAPTIC_PULSE_ON_MS ELSE HAPTIC_PULSE_OFF_MS)
    ELSE (IF pulseState THEN ALERT_PULSE_ON_MS ELSE ALERT_PULSE_OFF_MS)

\* C16: an update() during an active session that it does not end flips the
\* pulse phase exactly when the time since the last phase transition is at
\* least the duration of the current phase (on 100 / off 50 ms in a full
\* session, on 150 / off 100 ms in a haptic-only one); a flip sets the
\* transition time to now and leaves the haptic output equal to the new phase
\* and, in a full session, the audible output too.
C16_PulseFlipsOnPhaseDuration ==
    [][(pc = "api" /\ lastOp' = "update" /\ alertActive
          /\ ~(alertDuration > 0 /\ now - alertStartTime >= alertDuration)) =>
          IF now - lastPulseTime >= PhaseDurationMs
          THEN /\ pulseState' = ~pulseState
               /\ lastPulseTime' = now
               /\ vibration' = pulseState'
               /\ (~hapticOnly => buzzer' = pulseState')
          ELSE UNCHANGED <<pulseState, lastPulseTime, buzzer, vibration>>]_vars

\* C16 witness: update() has ended the first on phase of a haptic-only
\* session exactly 150 ms after its start
C16_Witness ==
    /\ lastOp = "update"
    /\ alertActive
    /\ hapticOnly
    /\ ~pulseState
    /\ ~vibration
    /\ lastPulseTime = now
    /\ now - alertStartTime = HAPTIC_PULSE_ON_MS

\* C19: a processing cycle triggers an alert exactly when detectionCount
\* (after this cycle's increment, if any) is at least
\* MIN_DETECTIONS_FOR_ALERT and at least ALERT_HOLDOFF_MS of loop time has
\* passed since lastAlertTime; in particular a cycle whose confidence is below
\* CONFIDENCE_THRESHOLD triggers one when the count accumulated earlier is at
\* the threshold and the holdoff has passed.
C19_AlertIgnoresCycleConfidence ==
    [][ScanCycleStep =>
          LET midCount == detectionCount +
                  (IF currentConfidence' >= CONFIDENCE_THRESHOLD THEN 1 ELSE 0)
              due == /\ midCount >= MIN_DETECTIONS_FOR_ALERT
                     /\ currentTime - lastAlertTime >= ALERT_HOLDOFF_MS
          IN /\ (alertTriggers' > alertTriggers) <=> due
             /\ (due => alertActive' /\ lastAlertTime' = currentTime)]_vars

\* C19 witness: a cycle whose confidence is below the threshold has triggered
\* an alert
C19_Witness ==
    /\ pc = "update"
    /\ lastOp = "alert"
    /\ currentConfidence < CONFIDENCE_THRESHOLD
    /\ alertActive
    /\ lastAlertTime = currentTime

\* C20: whenever the state is ALERT, detectionCount is at least
\* MIN_DETECTIONS_FOR_ALERT.
C20_AlertImpliesCount ==
    currentState = "ALERT" => detectionCount >= MIN_DETECTIONS_FOR_ALERT

\* C20 witness: a control cycle has ended in ALERT with a count that grew
\* beyond the threshold while in ALERT
C20_Witness ==
    /\ pc = "top"
    /\ currentState = "ALERT"
    /\ detectionCount > MIN_DETECTIONS_FOR_ALERT

\* C21: no alert is triggered in a cycle whose loop time is below
\* ALERT_HOLDOFF_MS, however many qualifying cycles have occurred; and while no
\* alert has been triggered yet, a processing cycle at or after
\* ALERT_HOLDOFF_MS whose count is at or above MIN_DETECTIONS_FOR_ALERT
\* triggers the first one.
C21_NoAlertBeforeHoldoff ==
    [][ScanCycleStep =>
          LET midCount == detectionCount +
                  (IF currentConfidence' >= CONFIDENCE_THRESHOLD THEN 1 ELSE 0)
          IN /\ (alertTriggers' > alertTriggers => currentTime >= ALERT_HOLDOFF_MS)
             /\ (currentTime < ALERT_HOLDOFF_MS =>
                   UNCHANGED <<alertActive, lastAlertTime, currentState>>)
             /\ ((/\ alertTriggers = 0
                  /\ currentTime >= ALERT_HOLDOFF_MS
                  /\ midCount >= MIN_DETECTIONS_FOR_ALERT)
                    => (alertTriggers' = 1 /\ alertActive'))]_vars

\* C21 witness: the first alert has just fired, at or after ALERT_HOLDOFF_MS,
\* after more than MIN_DETECTIONS_FOR_ALERT qualifying cycles
C21_Witness ==
    /\ lastOp = "alert"
    /\ alertTriggers = 1
    /\ lastAlertTime >= ALERT_HOLDOFF_MS
    /\ detectionCount > MIN_DETECTIONS_FOR_ALERT
    /\ qualTimes[1] < ALERT_HOLDOFF_MS

\* C22: after begin(), at every return of a triggerAlert, triggerHapticOnly,
\* update, stopAlert, playTone or playPattern call, when the active flag is
\* false both the buzzer and the vibration output are low.
C22_InactiveMeansOutputsLow == ~alertActive => (~buzzer /\ ~vibration)

\* C22 witness: stopAlert has ended a running session in its on phase
C22_Witness ==
    /\ lastOp = "stopAlert"
    /\ ~alertActive
    /\ pulseState
    /\ alertStartTime > 0
    /\ now > alertStartTime

FreshRowsSaturate ==
    \A r \in Rows : \A m \in Bands :
        calFresh[r][m] =>
            (calRows[r][m] >= 0 /\ NormalizeDb(calRows[r][m]) = DB_RANGE)

\* the mean of the values f[1] .. f[n]
MeanOf(f, n) ==
    DivTrunc(SumOver(1 .. n, f), n)

\* the profile a calibration run over the frames installs when the profile
\* installed before it is previous: per band the mean of the raw dB values if
\* the previous floor of the band is 0, else the mean of max(raw - previous, 0)
ExpectedProfile(frames, previous) ==
    [m \in Bands |->
        MeanOf([k \in 1 .. Len(frames) |->
                   IF previous[m] = 0 THEN MelDb(frames[k][m])
                   ELSE IF MelDb(frames[k][m]) - previous[m] < 0 THEN 0
                   ELSE MelDb(frames[k][m]) - previous[m]],
               Len(frames))]

\* C24: the profile a calibration run installs is, per band, the mean of the
\* raw dB values of its frames where the previously installed floor of the
\* band is 0, and the mean of max(raw - previous, 0) where it is not; so the
\* same frames install different profiles from different installed profiles.
C24_CalibrationDependsOnInstalled ==
    [][calRuns' > calRuns =>
          noiseFloor' = ExpectedProfile(calFrames', noiseFloor)]_vars

\* C24 witness: a second calibration run, started from a profile that is
\* non-zero in every band, has installed a profile that differs in every band
\* from the one the same frames install from the all-zero profile
C24_Witness ==
    /\ calRuns >= 2
    /\ Len(calFrames) >= 2
    /\ \A m \in Bands :
          /\ calPrevious[m] # 0
          /\ noiseFloor[m] # ExpectedProfile(calFrames, [b \in Bands |-> 0])[m]

====
